---- MODULE Spec2Model ----
(***************************************************************************)
(* Model of simclr_lin.py: AverageMeter, get_subset, get_lr, run_epoch and *)
(* the finetune loop.                                                      *)
(*                                                                         *)
(* Numbers.  Python floats are modelled as exact rationals <<n, d>> with   *)
(* d > 0, kept in lowest terms.  Learning rates are in units of 1e-3.      *)
(***************************************************************************)
EXTENDS Integers, Sequences, FiniteSets, TLC

----------------------------------------------------------------------------
(* Rational arithmetic *)

RECURSIVE Gcd(_, _)
Gcd(a, b) == IF b = 0 THEN a ELSE Gcd(b, a % b)

Abs(a) == IF a < 0 THEN -a ELSE a

\* n / d as a rational in lowest terms (d > 0)
Rat(n, d) ==
    LET g == Gcd(Abs(n), d)
    IN  IF n = 0 THEN <<0, 1>> ELSE <<n \div g, d \div g>>

RLt(a, b) == a[1] * b[2] < b[1] * a[2]
RLe(a, b) == a[1] * b[2] <= b[1] * a[2]
REq(a, b) == a[1] * b[2] = b[1] * a[2]
RAdd(a, b) == Rat(a[1] * b[2] + b[1] * a[2], a[2] * b[2])
RMul(a, b) == Rat(a[1] * b[1], a[2] * b[2])
RInt(k) == <<k, 1>>
\* ceil of a non-negative rational
RCeil(a) == (a[1] + a[2] - 1) \div a[2]

Min2(a, b) == IF a < b THEN a ELSE b

----------------------------------------------------------------------------
(* Bounds *)

MaxLen == 11         \* longest dataset handed to get_subset
PctDen == 2          \* pct ranges over the fractions p/q, 1 <= p <= q <= PctDen
MaxVal == 2          \* metric values handed to AverageMeter.update: 0..MaxVal
MaxWeight == 2       \* weights handed to AverageMeter.update: 1..MaxWeight
MaxUpdates == 4      \* calls of update and reset made on a meter
MaxTotal == 6        \* total_steps handed to get_lr: 1..MaxTotal
MaxLr == 3           \* lr_max, lr_min handed to get_lr: 0..MaxLr
MaxTrainLen == 2     \* longest training set of a finetune run
MaxTest == 2         \* largest test set of a finetune run
MaxBatch == 2        \* args.batch_size: 1..MaxBatch
MaxSchedEpochs == 2  \* args.epochs: 1..MaxSchedEpochs
MaxEpochs == 4       \* args.finetune_epochs: 1..MaxEpochs, and the samples a run
                     \* passes over: len(train_set) * finetune_epochs and
                     \* len(test_set) * finetune_epochs
MaxLoss == 1         \* finite batch losses below the initial optimal_loss: 0..MaxLoss
MaxCalls == 3        \* run_epoch calls made by the stand-alone caller

Labels == {0, 1}
Pcts == {pq \in (1..PctDen) \X (1..PctDen) : pq[1] <= pq[2] /\ Gcd(pq[1], pq[2]) = 1}

----------------------------------------------------------------------------
(* State *)

VARIABLES
    \* get_subset
    dataset,     \* the labels y of the dataset, in enumeration order
    pct,         \* the fraction, <<p, q>>
    i,           \* the index enumerate() yields next (0-based)
    m,           \* defaultdict(list): [keys: labels in insertion order, val: label -> list]
    indices,     \* the list returned
    spc,         \* position in get_subset: "loop", "collect", "done"
    \* AverageMeter
    meter,       \* [val, avg, sum, count]
    updates,     \* the calls made on the meter: <<val, n>> for update, ResetCall for reset
    \* get_lr
    lrarg,       \* [step, total_steps, lr_max, lr_min]
    lrval,       \* value get_lr returned for lrarg
    lrprev,      \* value get_lr returned for the previous step
    \* finetune and run_epoch
    cfg,         \* args: [n_test, batch_size, epochs, finetune_epochs, learning_rate]
    pc,          \* position in finetune (or of the stand-alone caller of run_epoch)
    err,         \* the exception that ended the run, or None
    epoch,       \* the loop variable of line 165
    re,          \* run_epoch's arguments: [optimizer (given or not), loader]
    b,           \* batches of the loader consumed by the current pass
    training,    \* model.training
    params,      \* version of the model parameters
    opt_steps,   \* number of optimizer.step() calls
    sched_step,  \* scheduler.last_epoch
    lr,          \* learning rate set by the scheduler
    memo,        \* outputs of the model, in eval mode with the current parameters, per test batch
    loss_meter,
    acc_meter,
    train_loss,
    test_loss,
    test_acc,
    optimal_loss,
    optimal_acc,
    es,          \* EarlyStopping: [counter, best, early_stop]
    ckpt,        \* the file simclr_lin_<backbone>_best.pt: NoCkpt or [epoch, params]
    reported,    \* the accuracy logged at line 185
    calls,       \* stand-alone caller: the completed run_epoch calls, [optimizer, ret],
                 \* ret the averages an evaluation pass returned
    \* history
    h_best,      \* first epoch with the lowest train loss so far: NoBest or [loss, epoch, acc]
    h_max_acc,   \* highest test accuracy of the completed epochs, or NoRat
    h_first,     \* test loss of epoch 1, or NoRat
    h_nonimp,    \* every completed epoch after the first had a test loss >= h_first
    h_last_acc,  \* test accuracy of the last completed epoch, or NoRat
    h_done       \* number of completed epochs

subsetVars == <<dataset, pct, i, m, indices, spc>>
meterVars == <<meter, updates>>
lrVars == <<lrarg, lrval, lrprev>>
runVars == <<cfg, pc, err, epoch, re, b, training, params, opt_steps, sched_step, lr,
             memo, loss_meter, acc_meter, train_loss, test_loss, test_acc,
             optimal_loss, optimal_acc, es, ckpt, reported, calls>>
histVars == <<h_best, h_max_acc, h_first, h_nonimp, h_last_acc, h_done>>
vars == <<subsetVars, meterVars, lrVars, runVars, histVars>>

None == "None"
\* an absent float, an absent checkpoint, an absent model output
NoRat == <<0, 0>>
NoCkpt == [epoch |-> 0, params |-> 0]
NoOutcome == [loss |-> -1, acc |-> -1]
NoBest == [loss |-> NoRat, epoch |-> 0, acc |-> NoRat]

----------------------------------------------------------------------------
(* get_subset, lines 97-110 *)

NumClassesDiv == 10

\* line 98: per_class_values = (len(dataset) * pct) / 10
PerClassValues(ds, frac) == Rat(Len(ds) * frac[1], frac[2] * NumClassesDiv)

EmptyDict == [keys |-> <<>>, val |-> [y \in Labels |-> <<>>]]

InKeys(d, y) == \E k \in 1..Len(d.keys) : d.keys[k] = y

\* m[y].append(idx); a defaultdict inserts the key on first access
DictAppend(d, y, idx) ==
    [keys |-> IF InKeys(d, y) THEN d.keys ELSE Append(d.keys, y),
     val  |-> [d.val EXCEPT ![y] = Append(@, idx)]]

\* SubsetBody with the cap compared by <= instead of <
SubsetBodyLe(d, idx, y, cap) ==
    IF InKeys(d, y)
    THEN IF RLe(RInt(Len(d.val[y])), cap) THEN DictAppend(d, y, idx) ELSE d
    ELSE DictAppend(d, y, idx)

\* lines 102-106: the body of the enumeration loop for item idx with label y
SubsetBody(d, idx, y, cap) ==
    IF InKeys(d, y)
    THEN IF RLt(RInt(Len(d.val[y])), cap) THEN DictAppend(d, y, idx) ELSE d
    ELSE DictAppend(d, y, idx)

\* Collect over sorted(m.items()): keys by ascending label, not insertion order
RECURSIVE CollectSorted(_, _)
CollectSorted(d, k) ==
    LET ys   == {y \in Labels : InKeys(d, y)}
        rest == {y \in ys : Cardinality({z \in ys : z < y}) >= k - 1}
    IN  IF rest = {} THEN <<>>
        ELSE LET y == CHOOSE z \in rest : \A w \in rest : z <= w
             IN  d.val[y] \o CollectSorted(d, k + 1)

\* lines 107-108: indices.extend(v) for each (k, v) of m.items()
RECURSIVE Collect(_, _)
Collect(d, k) ==
    IF k > Len(d.keys) THEN <<>>
    ELSE d.val[d.keys[k]] \o Collect(d, k + 1)

\* lines 101-106 run to completion from item idx
RECURSIVE SubsetLoop(_, _, _, _)
SubsetLoop(ds, d, idx, cap) ==
    IF idx >= Len(ds) THEN d
    ELSE SubsetLoop(ds, SubsetBody(d, idx, ds[idx + 1], cap), idx + 1, cap)

GetSubset(ds, frac) == Collect(SubsetLoop(ds, EmptyDict, 0, PerClassValues(ds, frac)), 1)

Datasets == UNION {[1..n -> Labels] : n \in 0..MaxLen}

\* the toy dataset family of the end-to-end scenario: 20 samples, 2 classes, 10 each
ToyDatasets == {ds \in [1..20 -> Labels] : Cardinality({k \in 1..20 : ds[k] = 0}) = 10}

SubsetIdle ==
    /\ dataset = <<>>
    /\ pct = <<1, 1>>
    /\ i = 0
    /\ m = EmptyDict
    /\ indices = <<>>
    /\ spc = "idle"

SubsetInit ==
    /\ dataset \in Datasets
    /\ pct \in Pcts
    /\ i = 0
    /\ m = EmptyDict
    /\ indices = <<>>
    /\ spc = "loop"

SubsetIter ==
    /\ spc = "loop"
    /\ i < Len(dataset)
    /\ m' = SubsetBody(m, i, dataset[i + 1], PerClassValues(dataset, pct))
    /\ i' = i + 1
    /\ UNCHANGED <<dataset, pct, indices, spc, meterVars, lrVars, runVars, histVars>>

SubsetLoopEnd ==
    /\ spc = "loop"
    /\ i >= Len(dataset)
    /\ spc' = "collect"
    /\ UNCHANGED <<dataset, pct, i, m, indices, meterVars, lrVars, runVars, histVars>>

SubsetReturn ==
    /\ spc = "collect"
    /\ indices' = Collect(m, 1)
    /\ spc' = "done"
    /\ UNCHANGED <<dataset, pct, i, m, meterVars, lrVars, runVars, histVars>>

\* get_subset(dataset, pct) as one call
SubsetCallInit ==
    /\ \/ dataset \in Datasets /\ pct \in Pcts
       \/ dataset \in ToyDatasets /\ pct = <<1, 2>>
    /\ i = 0
    /\ m = EmptyDict
    /\ indices = <<>>
    /\ spc = "call"

SubsetCall ==
    /\ spc = "call"
    /\ m' = SubsetLoop(dataset, EmptyDict, 0, PerClassValues(dataset, pct))
    /\ i' = Len(dataset)
    /\ indices' = GetSubset(dataset, pct)
    /\ spc' = "done"
    /\ UNCHANGED <<dataset, pct, meterVars, lrVars, runVars, histVars>>

----------------------------------------------------------------------------
(* AverageMeter, lines 25-41 *)

\* lines 31-35
MeterResetValue == [val |-> 0, avg |-> <<0, 1>>, sum |-> 0, count |-> 0]

\* lines 27-29: __init__ calls reset()
NewMeter == MeterResetValue

\* update adding val instead of val * n to the sum
MeterUpdateNoWeight(mt, v, n) ==
    [val   |-> v,
     sum   |-> mt.sum + v,
     count |-> mt.count + n,
     avg   |-> Rat(mt.sum + v, mt.count + n)]

\* lines 37-41
MeterUpdateValue(mt, v, n) ==
    [val   |-> v,
     sum   |-> mt.sum + v * n,
     count |-> mt.count + n,
     avg   |-> Rat(mt.sum + v * n, mt.count + n)]

MeterIdle ==
    /\ meter = NewMeter
    /\ updates = <<>>

MeterInit == MeterIdle

\* the entry of the call log for reset()
ResetCall == <<-1, 0>>

MeterUpdate ==
    /\ Len(updates) < MaxUpdates
    /\ \E v \in 0..MaxVal, n \in 1..MaxWeight :
          /\ meter' = MeterUpdateValue(meter, v, n)
          /\ updates' = Append(updates, <<v, n>>)
    /\ UNCHANGED <<subsetVars, lrVars, runVars, histVars>>

MeterReset ==
    /\ Len(updates) < MaxUpdates
    /\ meter' = MeterResetValue
    /\ updates' = Append(updates, ResetCall)
    /\ UNCHANGED <<subsetVars, lrVars, runVars, histVars>>

----------------------------------------------------------------------------
(* get_lr, lines 93-95 *)

\* np.cos(step / total_steps * np.pi) as a rational: Bhaskara's approximation
\* cos(x) ~ (pi^2 - 4x^2) / (pi^2 + x^2) on [-pi/2, pi/2], extended by
\* cos(pi - x) = -cos(x) and the period 2 pi.  It is exact at 0, pi/2 and pi.
CosPi(step, total) ==
    LET s2 == step % (2 * total)
        s1 == IF s2 > total THEN 2 * total - s2 ELSE s2
        s0 == IF 2 * s1 > total THEN total - s1 ELSE s1
        c  == Rat(total * total - 4 * s0 * s0, total * total + s0 * s0)
    IN  IF 2 * s1 > total THEN <<-c[1], c[2]>> ELSE c

\* get_lr with the sign of the cosine term flipped
GetLrFlipped(step, total, lr_max, lr_min) ==
    RAdd(RInt(lr_min),
         RMul(RMul(RInt(lr_max - lr_min), <<1, 2>>),
              RAdd(RInt(1), <<-CosPi(step, total)[1], CosPi(step, total)[2]>>)))

\* line 95
GetLr(step, total, lr_max, lr_min) ==
    RAdd(RInt(lr_min),
         RMul(RMul(RInt(lr_max - lr_min), <<1, 2>>),
              RAdd(RInt(1), CosPi(step, total))))

LrIdle ==
    /\ lrarg = [step |-> 0, total_steps |-> 1, lr_max |-> 0, lr_min |-> 0]
    /\ lrval = <<0, 1>>
    /\ lrprev = NoRat

LrInit ==
    /\ \E total \in 1..MaxTotal, hi \in 0..MaxLr, lo \in 0..MaxLr :
          /\ lrarg = [step |-> 0, total_steps |-> total, lr_max |-> hi, lr_min |-> lo]
          /\ lrval = GetLr(0, total, hi, lo)
    /\ lrprev = NoRat

\* get_lr evaluated at the next step of the schedule
LrNext ==
    /\ lrarg.step < lrarg.total_steps
    /\ lrarg' = [lrarg EXCEPT !.step = @ + 1]
    /\ lrprev' = lrval
    /\ lrval' = GetLr(lrarg.step + 1, lrarg.total_steps, lrarg.lr_max, lrarg.lr_min)
    /\ UNCHANGED <<subsetVars, meterVars, runVars, histVars>>

----------------------------------------------------------------------------
(* run_epoch, lines 57-90 *)

LrMin == 1              \* 1e-3, line 160
BaseLr == 200           \* 0.2, line 148
OptimalLossInit == 100000   \* 1e5, line 162
Patience == 2           \* line 163

LearningRates == {600}
BatchLosses == (0..MaxLoss) \cup {OptimalLossInit}
BatchAccs == {0, 1}
Outcomes == [loss : BatchLosses, acc : BatchAccs]

\* len(train_loader): DataLoader(Subset(train_set, indices), batch_size, drop_last=True)
NumTrainBatches == Len(indices) \div cfg.batch_size
\* len(test_loader): DataLoader(test_set, batch_size)
NumTestBatches == (cfg.n_test + cfg.batch_size - 1) \div cfg.batch_size

NumBatches(loader) == IF loader = "train" THEN NumTrainBatches ELSE NumTestBatches

\* x.size(0) of batch k (1-based) of the loader
BatchSize(loader, k) ==
    IF loader = "train" \/ k < NumTestBatches THEN cfg.batch_size
    ELSE cfg.n_test - (NumTestBatches - 1) * cfg.batch_size

\* line 158
TotalSteps == cfg.epochs * NumTrainBatches

\* the learning rate LambdaLR sets at step k: base lr times lr_lambda(k), lines 154-160
SchedLr(k) == RMul(<<BaseLr, 1>>, GetLr(k, TotalSteps, cfg.learning_rate, LrMin))

NoMemo == [k \in 1..MaxTest |-> NoOutcome]

\* lines 58-65
RunEpochEnter(optimizer, loader) ==
    /\ training' = optimizer
    /\ loss_meter' = NewMeter
    /\ acc_meter' = NewMeter
    /\ re' = [optimizer |-> optimizer, loader |-> loader]
    /\ b' = 0
    /\ UNCHANGED <<params, opt_steps, sched_step, lr, memo>>

\* lines 73-78 for a pass given an optimizer and a scheduler
TrainStep ==
    /\ params' = params + 1
    /\ opt_steps' = opt_steps + 1
    /\ sched_step' = sched_step + 1
    /\ lr' = SchedLr(sched_step + 1)
    /\ memo' = NoMemo

\* the optimizer and the schedule are stepped in every pass
AlwaysSteps(optimizer) == TRUE

\* line 73: if optimizer
StepsTaken(optimizer) == optimizer

\* lines 67-88: one iteration of the loop over the loader
RunEpochBatch ==
    /\ b < NumBatches(re.loader)
    /\ \E o \in Outcomes :
          \* model(x): the same parameters on the same test batch give the same output
          /\ (~training /\ re.loader = "test" /\ memo[b + 1] # NoOutcome) => o = memo[b + 1]
          /\ IF StepsTaken(re.optimizer)
             THEN TrainStep
             ELSE /\ memo' = IF ~training /\ re.loader = "test"
                             THEN [memo EXCEPT ![b + 1] = o] ELSE memo
                  /\ UNCHANGED <<params, opt_steps, sched_step, lr>>
          /\ loss_meter' = MeterUpdateValue(loss_meter, o.loss, BatchSize(re.loader, b + 1))
          /\ acc_meter' = MeterUpdateValue(acc_meter, o.acc, BatchSize(re.loader, b + 1))
    /\ b' = b + 1
    /\ UNCHANGED <<training, re>>

\* line 90 is reached
RunEpochDone == b >= NumBatches(re.loader)

\* line 90
RunEpochResult == [loss |-> loss_meter.avg, acc |-> acc_meter.avg]

NoResult == [loss |-> NoRat, acc |-> NoRat]

\* the return: the meters and the loop position are locals of run_epoch
RunEpochLeave ==
    /\ loss_meter' = NewMeter
    /\ acc_meter' = NewMeter
    /\ b' = 0
    /\ UNCHANGED <<re, training, params, opt_steps, sched_step, lr, memo>>

----------------------------------------------------------------------------
(* EarlyStopping(patience=2) of pytorchtools *)

NewEarlyStopping == [counter |-> 0, best |-> NoRat, early_stop |-> FALSE]

\* early_stopping(val_loss, model): the first value and every improvement
\* become the best value and clear the strike counter; any other value is a
\* strike, and the stop flag is raised at Patience strikes
EarlyStoppingCall(e, val_loss) ==
    IF e.best = NoRat
    THEN [e EXCEPT !.best = val_loss]
    ELSE IF RLt(val_loss, e.best)
         THEN [e EXCEPT !.best = val_loss, !.counter = 0]
         ELSE [e EXCEPT !.counter = @ + 1,
                        !.early_stop = (e.counter + 1 >= Patience)]

----------------------------------------------------------------------------
(* finetune, lines 112-185 *)

\* CIFAR10(train=True) as a sequence of labels: classes alternate
TrainSets == {[k \in 1..n |-> (k - 1) % 2] : n \in 1..MaxTrainLen}

Configs ==
    [n_test : 1..MaxTest, batch_size : 1..MaxBatch, epochs : 1..MaxSchedEpochs,
     finetune_epochs : 1..MaxEpochs, learning_rate : LearningRates]

RunStartValues ==
    /\ err = None
    /\ epoch = 0
    /\ re = [optimizer |-> FALSE, loader |-> "test"]
    /\ b = 0
    /\ training = TRUE
    /\ params = 0
    /\ opt_steps = 0
    /\ sched_step = 0
    /\ lr = <<0, 1>>
    /\ memo = NoMemo
    /\ loss_meter = NewMeter
    /\ acc_meter = NewMeter
    /\ train_loss = NoRat
    /\ test_loss = NoRat
    /\ test_acc = NoRat
    /\ optimal_loss = NoRat
    /\ optimal_acc = NoRat
    /\ es = NewEarlyStopping
    /\ ckpt = NoCkpt
    /\ reported = NoRat
    /\ calls = <<>>
    /\ h_best = NoBest
    /\ h_max_acc = NoRat
    /\ h_first = NoRat
    /\ h_nonimp = TRUE
    /\ h_last_acc = NoRat
    /\ h_done = 0

RunIdle ==
    /\ cfg = [n_test |-> 1, batch_size |-> 1, epochs |-> 1, finetune_epochs |-> 1,
              learning_rate |-> 600]
    /\ pc = "idle"
    /\ RunStartValues

FinetuneInit ==
    /\ dataset \in TrainSets
    /\ pct \in Pcts
    /\ i = 0
    /\ m = EmptyDict
    /\ indices = <<>>
    /\ spc = "idle"
    /\ cfg \in Configs
    /\ Len(dataset) * cfg.finetune_epochs <= MaxEpochs
    /\ cfg.n_test * cfg.finetune_epochs <= MaxEpochs
    /\ pc = "start"
    /\ RunStartValues

histFrame == UNCHANGED <<histVars, meterVars, lrVars>>
passVars == <<re, b, training, params, opt_steps, sched_step, lr, memo, loss_meter, acc_meter>>
selectVars == <<optimal_loss, optimal_acc, es, ckpt>>

\* lines 114-163: loaders, model, optimizer, scheduler, early stopping.
\* LambdaLR's constructor evaluates lr_lambda(0), i.e. 0 / total_steps.
Setup ==
    /\ pc = "start"
    /\ indices' = GetSubset(dataset, pct)
    /\ LET nb    == Len(indices') \div cfg.batch_size
           total == cfg.epochs * nb
       IN  IF total = 0
           THEN /\ pc' = "crashed"
                /\ err' = "ZeroDivisionError"
                /\ UNCHANGED <<lr, optimal_loss, optimal_acc, es, epoch>>
           ELSE /\ lr' = RMul(<<BaseLr, 1>>, GetLr(0, total, cfg.learning_rate, LrMin))
                /\ optimal_loss' = RInt(OptimalLossInit)
                /\ optimal_acc' = RInt(0)
                /\ es' = NewEarlyStopping
                /\ epoch' = 1
                /\ pc' = "train_call"
                /\ err' = None
    /\ UNCHANGED <<dataset, pct, i, m, spc, cfg, re, b, training, params, opt_steps,
                   sched_step, memo, loss_meter, acc_meter, train_loss, test_loss,
                   test_acc, ckpt, reported, calls>>
    /\ histFrame

\* line 166, entry
TrainCall ==
    /\ pc = "train_call"
    /\ RunEpochEnter(TRUE, "train")
    /\ pc' = "train_run"
    /\ UNCHANGED <<subsetVars, cfg, err, epoch, train_loss, test_loss, test_acc,
                   selectVars, reported, calls>>
    /\ histFrame

TrainBatch ==
    /\ pc = "train_run"
    /\ RunEpochBatch
    /\ UNCHANGED <<subsetVars, cfg, pc, err, epoch, train_loss, test_loss, test_acc,
                   selectVars, reported, calls>>
    /\ histFrame

\* line 166, return
TrainReturn ==
    /\ pc = "train_run"
    /\ RunEpochDone
    /\ train_loss' = RunEpochResult.loss
    /\ RunEpochLeave
    /\ pc' = "eval_call"
    /\ UNCHANGED <<subsetVars, cfg, err, epoch, test_loss, test_acc,
                   selectVars, reported, calls>>
    /\ histFrame

\* line 167, entry
EvalCall ==
    /\ pc = "eval_call"
    /\ RunEpochEnter(FALSE, "test")
    /\ pc' = "eval_run"
    /\ UNCHANGED <<subsetVars, cfg, err, epoch, train_loss, test_loss, test_acc,
                   selectVars, reported, calls>>
    /\ histFrame

EvalBatch ==
    /\ pc = "eval_run"
    /\ RunEpochBatch
    /\ UNCHANGED <<subsetVars, cfg, pc, err, epoch, train_loss, test_loss, test_acc,
                   selectVars, reported, calls>>
    /\ histFrame

\* line 167, return
EvalReturn ==
    /\ pc = "eval_run"
    /\ RunEpochDone
    /\ test_loss' = RunEpochResult.loss
    /\ test_acc' = RunEpochResult.acc
    /\ RunEpochLeave
    /\ pc' = "select"
    /\ UNCHANGED <<subsetVars, cfg, err, epoch, train_loss,
                   selectVars, reported, calls>>
    /\ histFrame

\* the history of completed epochs
RecordEpoch ==
    /\ h_best' = IF h_best = NoBest \/ RLt(train_loss, h_best.loss)
                 THEN [loss |-> train_loss, epoch |-> epoch, acc |-> test_acc]
                 ELSE h_best
    /\ h_max_acc' = IF h_max_acc = NoRat \/ RLt(h_max_acc, test_acc)
                    THEN test_acc ELSE h_max_acc
    /\ h_first' = IF h_first = NoRat THEN test_loss ELSE h_first
    /\ h_nonimp' = (h_nonimp /\ (h_first # NoRat => RLe(h_first, test_loss)))
    /\ h_last_acc' = test_acc
    /\ h_done' = h_done + 1

\* a tie with the best training loss counts as a new best
NewBestOrTie(loss, best) == RLe(loss, best)

\* line 169: if train_loss < optimal_loss
NewBest(loss, best) == RLt(loss, best)

\* the loop goes on after an early stop
NeverBreaks(stop) == FALSE

\* lines 177, 183: if early_stopping.early_stop: ... break
Breaks(stop) == stop

\* lines 169-183, and line 165 for the next epoch
EpochEnd ==
    /\ pc = "select"
    /\ LET best == NewBest(train_loss, optimal_loss)
           es1  == EarlyStoppingCall(es, test_loss)
           here == [epoch |-> epoch, params |-> params]
       IN  /\ es' = es1
           /\ optimal_loss' = IF best \/ es1.early_stop THEN train_loss ELSE optimal_loss
           /\ optimal_acc' = IF best \/ es1.early_stop THEN test_acc ELSE optimal_acc
           /\ ckpt' = IF best \/ es1.early_stop THEN here ELSE ckpt
           /\ IF Breaks(es1.early_stop) \/ epoch >= cfg.finetune_epochs
              THEN /\ pc' = "report"
                   /\ UNCHANGED epoch
              ELSE /\ pc' = "train_call"
                   /\ epoch' = epoch + 1
    /\ RecordEpoch
    \* the losses of this epoch are not read again: the next epoch assigns
    \* them before any use and line 185 reads optimal_acc only
    /\ train_loss' = NoRat
    /\ test_loss' = NoRat
    /\ test_acc' = NoRat
    /\ UNCHANGED <<subsetVars, cfg, err, passVars, reported, calls, meterVars, lrVars>>

\* line 185
Report ==
    /\ pc = "report"
    /\ reported' = optimal_acc
    /\ pc' = "done"
    /\ UNCHANGED <<subsetVars, cfg, err, epoch, passVars, train_loss, test_loss,
                   test_acc, selectVars, calls>>
    /\ histFrame

----------------------------------------------------------------------------
(* run_epoch called on its own: any sequence of training passes over the     *)
(* train loader and evaluation passes over the test loader                   *)

CallerInit ==
    /\ dataset \in TrainSets
    /\ pct = <<1, 1>>
    /\ i = 0
    /\ m = EmptyDict
    /\ indices = GetSubset(dataset, pct)
    /\ spc = "idle"
    /\ cfg \in Configs
    /\ cfg.finetune_epochs = 1
    /\ cfg.epochs = 1
    \* a scheduler exists: LambdaLR was built with total_steps > 0
    /\ cfg.epochs * (Len(indices) \div cfg.batch_size) > 0
    /\ pc = "idle"
    /\ err = None
    /\ epoch = 0
    /\ re = [optimizer |-> FALSE, loader |-> "test"]
    /\ b = 0
    /\ training = TRUE
    /\ params = 0
    /\ opt_steps = 0
    /\ sched_step = 0
    /\ lr = RMul(<<BaseLr, 1>>,
                 GetLr(0, cfg.epochs * (Len(indices) \div cfg.batch_size),
                       cfg.learning_rate, LrMin))
    /\ memo = NoMemo
    /\ loss_meter = NewMeter
    /\ acc_meter = NewMeter
    /\ train_loss = NoRat
    /\ test_loss = NoRat
    /\ test_acc = NoRat
    /\ optimal_loss = NoRat
    /\ optimal_acc = NoRat
    /\ es = NewEarlyStopping
    /\ ckpt = NoCkpt
    /\ reported = NoRat
    /\ calls = <<>>
    /\ h_best = NoBest
    /\ h_max_acc = NoRat
    /\ h_first = NoRat
    /\ h_nonimp = TRUE
    /\ h_last_acc = NoRat
    /\ h_done = 0

callerFrame ==
    UNCHANGED <<subsetVars, cfg, err, epoch, train_loss, test_loss, test_acc,
                selectVars, reported, histVars, meterVars, lrVars>>

CallerCall ==
    /\ pc = "idle"
    /\ Len(calls) < MaxCalls
    /\ \E optimizer \in BOOLEAN :
          RunEpochEnter(optimizer, IF optimizer THEN "train" ELSE "test")
    /\ pc' = "running"
    /\ UNCHANGED calls
    /\ callerFrame

CallerBatch ==
    /\ pc = "running"
    /\ RunEpochBatch
    /\ UNCHANGED <<pc, calls>>
    /\ callerFrame

CallerReturn ==
    /\ pc = "running"
    /\ RunEpochDone
    /\ calls' = Append(calls, [optimizer |-> re.optimizer,
                                ret |-> IF re.optimizer THEN NoResult ELSE RunEpochResult])
    /\ RunEpochLeave
    /\ pc' = "idle"
    /\ callerFrame

CallerNext ==
    \/ CallerCall
    \/ CallerBatch
    \/ CallerReturn

FinetuneNext ==
    \/ Setup
    \/ TrainCall
    \/ TrainBatch
    \/ TrainReturn
    \/ EvalCall
    \/ EvalBatch
    \/ EvalReturn
    \/ EpochEnd
    \/ Report

----------------------------------------------------------------------------
(* Specifications *)

\* get_subset, one loop iteration at a time
SubsetSpecInit == SubsetInit /\ MeterIdle /\ LrIdle /\ RunIdle
SubsetNext ==
    \/ SubsetIter
    \/ SubsetLoopEnd
    \/ SubsetReturn
SubsetSpec == SubsetSpecInit /\ [][SubsetNext]_vars

\* get_subset as a function of its arguments
SubsetCallSpecInit == SubsetCallInit /\ MeterIdle /\ LrIdle /\ RunIdle
SubsetCallNext == SubsetCall
SubsetCallSpec == SubsetCallSpecInit /\ [][SubsetCallNext]_vars

\* one AverageMeter under any sequence of update and reset
MeterSpecInit == MeterInit /\ SubsetIdle /\ LrIdle /\ RunIdle
MeterNext ==
    \/ MeterUpdate
    \/ MeterReset
MeterSpec == MeterSpecInit /\ [][MeterNext]_vars

\* get_lr along the steps of one schedule
LrSpecInit == LrInit /\ SubsetIdle /\ MeterIdle /\ RunIdle
LrSpecNext == LrNext
LrSpec == LrSpecInit /\ [][LrSpecNext]_vars

\* a finetune run
FinetuneSpecInit == FinetuneInit /\ MeterIdle /\ LrIdle
FinetuneSpec == FinetuneSpecInit /\ [][FinetuneNext]_vars

\* run_epoch called on its own
RunEpochSpecInit == CallerInit /\ MeterIdle /\ LrIdle
RunEpochSpec == RunEpochSpecInit /\ [][CallerNext]_vars

----------------------------------------------------------------------------
(* Properties of get_subset *)

Count(ds, y) == Cardinality({k \in 1..Len(ds) : ds[k] = y})
Cap(ds, frac) == RCeil(PerClassValues(ds, frac))

C4_CapInv ==
    /\ \A y \in Labels : Len(m.val[y]) <= Cap(dataset, pct)
    /\ Len(indices) <= Len(dataset)
    /\ spc = "done" =>
          \A y \in Labels :
             Cardinality({k \in 1..Len(indices) : dataset[indices[k] + 1] = y})
                <= Cap(dataset, pct)

C4_CapStep ==
    \A y \in Labels : Len(m.val[y]) >= Cap(dataset, pct) => m'.val[y] = m.val[y]

\* C4: for every dataset and pct in (0, 1] each class has at most
\* ceil(pct * len(dataset) / 10) selected indices, at most len(dataset) indices
\* are selected in total, and a class that has reached the cap gets no further
\* index.
C4_PerClassCap == [] C4_CapInv /\ [][C4_CapStep]_vars

\* a class of cap 2 is full and a later sample of it was passed over
C4_Witness ==
    /\ spc = "done"
    /\ \E y \in Labels :
          /\ Cap(dataset, pct) = 2
          /\ Len(m.val[y]) = 2
          /\ Count(dataset, y) > 2
          /\ Len(indices) < Len(dataset)

\* the 0-based positions of label y in ds, ascending, starting from position k
RECURSIVE Positions(_, _, _)
Positions(ds, y, k) ==
    IF k > Len(ds) THEN <<>>
    ELSE (IF ds[k] = y THEN <<k - 1>> ELSE <<>>) \o Positions(ds, y, k + 1)

FirstPos(ds, y) == Positions(ds, y, 1)[1]

\* how many samples of label y are admitted: the first one always, later ones
\* while the bucket size is below len(dataset) * pct / 10
Admitted(ds, frac, y) ==
    LET c == Cap(ds, frac)
        k == IF c < 1 THEN 1 ELSE c
    IN  Min2(Count(ds, y), k)

\* concatenation, over the labels of ys taken by first occurrence, of their
\* earliest positions
RECURSIVE Expected(_, _, _)
Expected(ds, frac, ys) ==
    IF ys = {} THEN <<>>
    ELSE LET y == CHOOSE z \in ys : \A w \in ys : FirstPos(ds, z) <= FirstPos(ds, w)
         IN  SubSeq(Positions(ds, y, 1), 1, Admitted(ds, frac, y))
                \o Expected(ds, frac, ys \ {y})

Present(ds) == {y \in Labels : Count(ds, y) > 0}

\* C5: get_subset returns each index once, as the concatenation over labels in
\* first-occurrence order of each label's earliest indices; 20 samples in 2
\* classes of 10 with pct = 0.5 give exactly the first sample of each class.
C5_SubsetResult ==
    spc = "done" =>
       /\ \A j, k \in 1..Len(indices) : j # k => indices[j] # indices[k]
       /\ indices = Expected(dataset, pct, Present(dataset))
       /\ (dataset \in ToyDatasets /\ pct = <<1, 2>>) =>
             /\ Len(indices) = 2
             /\ indices[1] = 0
             /\ indices[2] = FirstPos(dataset, 1 - dataset[1])

\* the toy dataset whose second class first appears at index 3
C5_Witness ==
    /\ spc = "done"
    /\ Len(dataset) = 20
    /\ Count(dataset, 0) = 10
    /\ indices = <<0, 3>>

----------------------------------------------------------------------------
(* Properties of AverageMeter *)

\* the updates made since the last reset
RECURSIVE SinceReset(_)
SinceReset(log) ==
    IF log = <<>> \/ log[Len(log)] = ResetCall THEN <<>>
    ELSE Append(SinceReset(SubSeq(log, 1, Len(log) - 1)), log[Len(log)])

RECURSIVE SumProd(_, _)
SumProd(us, k) == IF k > Len(us) THEN 0 ELSE us[k][1] * us[k][2] + SumProd(us, k + 1)

RECURSIVE SumWeight(_, _)
SumWeight(us, k) == IF k > Len(us) THEN 0 ELSE us[k][2] + SumWeight(us, k + 1)

\* C6: after any updates with weight >= 1 since the last reset, sum is the
\* weighted sum, count the sum of weights, val the last value and avg
\* sum / count; after reset all four are zero.
C6_MeterAverages ==
    LET us == SinceReset(updates)
    IN  /\ meter.sum = SumProd(us, 1)
        /\ meter.count = SumWeight(us, 1)
        /\ us # <<>> =>
              /\ meter.val = us[Len(us)][1]
              /\ meter.avg[1] * SumWeight(us, 1) = SumProd(us, 1) * meter.avg[2]
        /\ us = <<>> =>
              /\ meter.val = 0
              /\ meter.avg = <<0, 1>>
              /\ meter.sum = 0
              /\ meter.count = 0

\* an update, a reset, then two updates with unequal values and weights
C6_Witness ==
    /\ updates = <<<<1, 2>>, ResetCall, <<2, 1>>, <<0, 2>>>>
    /\ meter.avg = <<2, 3>>
    /\ meter.val = 0

----------------------------------------------------------------------------
(* Properties of get_lr *)

\* C8: get_lr is lr_max at step 0, lr_min at step total_steps, and does not
\* increase from one step to the next on [0, total_steps] when lr_max >= lr_min.
C8_CosineSchedule ==
    /\ lrarg.step = 0 => lrval = RInt(lrarg.lr_max)
    /\ lrarg.step = lrarg.total_steps => lrval = RInt(lrarg.lr_min)
    /\ (lrprev # NoRat /\ lrarg.lr_max >= lrarg.lr_min) => RLe(lrval, lrprev)

\* the end of a schedule that strictly decreased on its last step
C8_Witness ==
    /\ lrarg.step = lrarg.total_steps
    /\ lrarg.total_steps >= 3
    /\ lrarg.lr_max > lrarg.lr_min
    /\ lrprev # NoRat
    /\ lrprev # lrval
    /\ RLt(lrval, lrprev)

----------------------------------------------------------------------------
(* Properties of run_epoch *)

C7_EvalFrame == ~re'.optimizer => UNCHANGED <<params, opt_steps, sched_step, lr>>

C7_EvalRepeat ==
    \A k \in 1..(Len(calls) - 1) :
       (~calls[k].optimizer /\ ~calls[k + 1].optimizer) => calls[k].ret = calls[k + 1].ret

\* C7: a pass without an optimizer steps neither the optimizer nor the
\* schedule and leaves the parameters alone, and two such passes in a row
\* over the test loader return the same averages.
C7_EvalIdempotent == [][C7_EvalFrame]_vars /\ [] C7_EvalRepeat

\* a training pass, then two evaluation passes of two batches with a mixed result
C7_Witness ==
    /\ Len(calls) = 3
    /\ calls[1].optimizer
    /\ ~calls[2].optimizer
    /\ ~calls[3].optimizer
    /\ NumTestBatches = 2
    /\ calls[3].ret.loss = <<1, 2>>
    /\ params > 0

----------------------------------------------------------------------------
(* Properties of finetune *)

\* C1: when the test losses of epochs 2 and 3 do not improve on epoch 1, the
\* loop stops at epoch 3 with the checkpoint of epoch 3 saved and no pass of a
\* later epoch run.
C1_StopsAtEpochThree ==
    (h_done >= 3 /\ h_nonimp) =>
       /\ epoch = 3
       /\ h_done = 3
       /\ pc \in {"report", "done"}
       /\ es.early_stop
       /\ ckpt = [epoch |-> 3, params |-> params]
       /\ opt_steps = 3 * NumTrainBatches

\* a run of up to 4 epochs that was stopped after the third
C1_Witness ==
    /\ pc = "done"
    /\ cfg.finetune_epochs = 4
    /\ h_done = 3
    /\ h_nonimp
    /\ es.early_stop
    /\ ckpt.epoch = 3

C2_BestInv ==
    h_done >= 1 =>
       \/ /\ ckpt.epoch = h_best.epoch
          /\ optimal_loss = h_best.loss
          /\ optimal_acc = h_best.acc
       \/ /\ es.early_stop
          /\ ckpt.epoch = h_done
          /\ optimal_acc = h_last_acc

C2_BestStep ==
    pc = "select" =>
       ((ckpt' # ckpt) <=>
           (h_best = NoBest \/ RLt(train_loss, h_best.loss) \/ es'.early_stop))

\* C2: after every completed epoch the saved checkpoint and the recorded
\* optimal loss and accuracy are those of the epoch with the lowest training
\* loss so far, written exactly when an epoch's training loss is strictly
\* below the best seen, or they are those of the epoch of the early stop.
C2_BestCheckpoint == [] C2_BestInv /\ [][C2_BestStep]_vars

\* C3: at termination the reported accuracy is the highest test accuracy of
\* any evaluation pass of the run.
C3_ReportsHighest == pc = "done" => reported = h_max_acc

\* C3 as amended: at termination the reported accuracy is the test accuracy
\* of the epoch of the early stop if there was one, else that of the first
\* epoch with the lowest training loss if that loss is below the initial 1e5,
\* else 0.
C3_ReportsSelected ==
    pc = "done" =>
       reported = IF es.early_stop THEN h_last_acc
                  ELSE IF RLt(h_best.loss, RInt(OptimalLossInit)) THEN h_best.acc
                  ELSE RInt(0)

\* a run that ends without an early stop and reports less than the highest
\* test accuracy it saw
C3_Witness ==
    /\ pc = "done"
    /\ ~es.early_stop
    /\ h_done >= 2
    /\ reported = h_best.acc
    /\ RLt(reported, h_max_acc)

\* C9: the schedule's step counter equals the number of optimizer steps and
\* stays within [0, total_steps], total_steps = epochs * len(train_loader).
C9_ScheduleStep ==
    /\ sched_step = opt_steps
    /\ sched_step >= 0
    /\ sched_step <= TotalSteps

\* C10: every pass calls update with a weight >= 1 before avg is read, and
\* no division by a zero count or a zero total step count occurs.
C10_NoZeroDivision ==
    /\ err # "ZeroDivisionError"
    /\ (pc \in {"train_run", "eval_run"} /\ RunEpochDone) =>
          /\ loss_meter.count >= 1
          /\ acc_meter.count >= 1

====
